---- MODULE Spec2Model ----
(***************************************************************************)
(* A model of bastion-schema: the field-type lattice, the rule catalogue,  *)
(* the schema builder, the schema wire format and the validation driver.   *)
(*                                                                         *)
(* Strings are sequences of characters (one-character TLA+ strings).       *)
(* An f64 is a record [cls, h]: cls "fin" with h twice the value (so that  *)
(* halves are representable), or "nan", "inf", "ninf".                     *)
(* Model integers lie within the i64 range.                                *)
(***************************************************************************)
EXTENDS Integers, Sequences, FiniteSets, TLC

VARIABLES
    schema,     \* the Schema under construction / being validated against
    def,        \* the FieldDefinition being built (NoDef when none)
    log,        \* history: the Schema::field insertions made so far
    name0,      \* history: the name given to Schema::new
    wire,       \* the serialized schema (NoWire before serialization)
    decoded,    \* the result of deserializing wire (NoResult before)
    payload,    \* the payload of the current validate call
    pc,         \* position of the current validate call
    todo,       \* schema fields the loop of validate has not visited yet
    cur,        \* the field whose rules are being applied
    ri,         \* index of the next rule of cur
    visited,    \* history: the fields in the order the loop visited them
    errors,     \* the errors vector of the current validate call
    result,     \* the value returned by the current validate call
    prev        \* history: payload and result of the previous validate call

vars == <<schema, def, log, name0, wire, decoded, payload, pc, todo, cur, ri,
          visited, errors, result, prev>>

(***************************************************************************)
(* Bounds                                                                  *)
(***************************************************************************)
MaxRules == 1        \* rules per field definition (validation, one field)
MaxFields == 2       \* fields per schema (validation, several fields)
MaxInserts == 2      \* Schema::field calls per built schema
MaxBuildRules == 1   \* rules per built field definition

(***************************************************************************)
(* Floating point numbers                                                  *)
(***************************************************************************)
Fin(h) == [cls |-> "fin", h |-> h]
NaN == [cls |-> "nan", h |-> 0]
Inf == [cls |-> "inf", h |-> 0]
NegInf == [cls |-> "ninf", h |-> 0]

\* f64::MAX and f64::MIN: finite, beyond every other finite value of the model
F64MaxH == 1000000
F64_MAX == Fin(F64MaxH)
F64_MIN == Fin(0 - F64MaxH)

\* x < y on f64 (IEEE: every comparison with NaN is false)
F64Lt(x, y) ==
    IF x.cls = "nan" \/ y.cls = "nan" THEN FALSE
    ELSE IF x.cls = "ninf" THEN y.cls # "ninf"
    ELSE IF y.cls = "inf" THEN x.cls # "inf"
    ELSE IF x.cls = "fin" /\ y.cls = "fin" THEN x.h < y.h
    ELSE FALSE

\* x == y on f64 (NaN differs from itself)
F64Eq(x, y) == x.cls # "nan" /\ y.cls # "nan" /\ x = y

(***************************************************************************)
(* Strings                                                                 *)
(***************************************************************************)
Digits == {"0", "1", "2", "3", "4", "5", "6", "7", "8", "9"}

\* bytes of the UTF-8 encoding of one character
Utf8Len(c) == IF c = "é" THEN 2 ELSE 1

RECURSIVE StrLen(_)
\* str::len: the length in bytes
StrLen(s) == IF s = <<>> THEN 0 ELSE Utf8Len(Head(s)) + StrLen(Tail(s))

DigitVal(c) ==
    CASE c = "0" -> 0 [] c = "1" -> 1 [] c = "2" -> 2 [] c = "3" -> 3
      [] c = "4" -> 4 [] c = "5" -> 5 [] c = "6" -> 6 [] c = "7" -> 7
      [] c = "8" -> 8 [] c = "9" -> 9

AllDigits(s, lo, hi) == \A i \in lo..hi : s[i] \in Digits

\* the value of the two digits at s[i], s[i+1]
Num2(s, i) == 10 * DigitVal(s[i]) + DigitVal(s[i + 1])

\* str::parse::<i64>().is_ok(): an optional sign and at least one digit
\* (model strings are too short to leave the i64 range)
ParseI64Ok(s) ==
    LET signed == Len(s) >= 1 /\ s[1] \in {"+", "-"}
        first == IF signed THEN 2 ELSE 1
    IN  Len(s) >= first /\ AllDigits(s, first, Len(s))

DaysIn(y, m) ==
    IF m \in {4, 6, 9, 11} THEN 30
    ELSE IF m = 2
         THEN (IF (y % 4 = 0 /\ y % 100 # 0) \/ y % 400 = 0 THEN 29 ELSE 28)
         ELSE 31

\* chrono::DateTime::parse_from_rfc3339(s).is_ok():
\* YYYY-MM-DD, a separator, HH:MM:SS, an optional fraction, then Z or +-HH:MM
ParseRfc3339Ok(s) ==
    /\ Len(s) >= 20
    /\ AllDigits(s, 1, 4) /\ s[5] = "-" /\ AllDigits(s, 6, 7) /\ s[8] = "-"
    /\ AllDigits(s, 9, 10) /\ s[11] \in {"T", "t", " "}
    /\ AllDigits(s, 12, 13) /\ s[14] = ":" /\ AllDigits(s, 15, 16)
    /\ s[17] = ":" /\ AllDigits(s, 18, 19)
    /\ LET y == 100 * Num2(s, 1) + Num2(s, 3)
           m == Num2(s, 6)
           d == Num2(s, 9)
       IN  m \in 1..12 /\ d \in 1..DaysIn(y, m)
    /\ Num2(s, 12) \in 0..23 /\ Num2(s, 15) \in 0..59 /\ Num2(s, 18) \in 0..60
    /\ \E z \in 20..Len(s) :
          /\ z > 20 => (s[20] = "." /\ z > 21 /\ AllDigits(s, 21, z - 1))
          /\ \/ z = Len(s) /\ s[z] \in {"Z", "z"}
             \/ /\ z + 5 = Len(s) /\ s[z] \in {"+", "-"}
                /\ AllDigits(s, z + 1, z + 2) /\ s[z + 3] = ":"
                /\ AllDigits(s, z + 4, z + 5)
                /\ Num2(s, z + 1) \in 0..23 /\ Num2(s, z + 4) \in 0..59

(***************************************************************************)
(* Regular expressions: a catalogue of regex sources                       *)
(***************************************************************************)
PEmail == "^[^@]+@[^@]+$"
PDigits == "^\\d+$"
PBad == "("

\* Regex::new(pattern).is_ok()
RegexCompiles(pattern) == pattern # PBad

\* Regex::is_match
IsMatch(pattern, s) ==
    CASE pattern = PEmail ->
            \E i \in 2..(Len(s) - 1) :
                s[i] = "@" /\ \A j \in (1..Len(s)) \ {i} : s[j] # "@"
      [] pattern = PDigits -> Len(s) >= 1 /\ AllDigits(s, 1, Len(s))
      [] OTHER -> FALSE

(***************************************************************************)
(* serde_json::Value                                                       *)
(***************************************************************************)
EmptyMap == [k \in {} |-> k]

VString(s) == [kind |-> "String", s |-> s]
VPosInt(i) == [kind |-> "Number", repr |-> "PosInt", i |-> i]
VNegInt(i) == [kind |-> "Number", repr |-> "NegInt", i |-> i]
VFloat(f) == [kind |-> "Number", repr |-> "Float", f |-> f]
VBool(b) == [kind |-> "Bool", b |-> b]
VArray == [kind |-> "Array"]
VObject(m) == [kind |-> "Object", map |-> m]
VNull == [kind |-> "Null"]

is_string(v) == v.kind = "String"
is_i64(v) == v.kind = "Number" /\ v.repr \in {"PosInt", "NegInt"}
is_u64(v) == v.kind = "Number" /\ v.repr = "PosInt"
is_f64(v) == v.kind = "Number" /\ v.repr = "Float"
is_boolean(v) == v.kind = "Bool"
is_array(v) == v.kind = "Array"
is_object(v) == v.kind = "Object"
is_null(v) == v.kind = "Null"

None == [some |-> FALSE]
Some(x) == [some |-> TRUE, v |-> x]

\* mutant of Get: a lookup that falls back to some other member when the
\* object has no member of that name
GetOrAny(v, name) ==
    IF is_object(v) /\ name \in DOMAIN v.map THEN Some(v.map[name])
    ELSE IF is_object(v) /\ DOMAIN v.map # {}
         THEN Some(v.map[CHOOSE k \in DOMAIN v.map : TRUE])
         ELSE None

\* mutant of Get: indexing (payload[name]), which yields null for a missing
\* member and for a value that is no object
GetIndex(v, name) ==
    IF is_object(v) /\ name \in DOMAIN v.map THEN Some(v.map[name])
    ELSE Some(VNull)

\* Value::get(&str): the member of an object, None for any other value
Get(v, name) ==
    IF is_object(v) /\ name \in DOMAIN v.map THEN Some(v.map[name]) ELSE None

\* Value::as_str().unwrap_or("")
AsStrOrEmpty(v) == IF is_string(v) THEN v.s ELSE <<>>

\* Value::as_f64().unwrap_or(dflt)
AsF64Or(v, dflt) ==
    IF v.kind # "Number" THEN dflt
    ELSE IF v.repr = "Float" THEN v.f ELSE Fin(2 * v.i)

(***************************************************************************)
(* FieldType, DateTimeFormat, ValidationRule                               *)
(***************************************************************************)
FieldType ==
    {"String", "Integer", "Float", "Boolean", "DateTime", "Object", "Array"}

DateTimeFormat == {"Iso8601", "UnixTimestamp"}

Pattern(p) == [rule |-> "Pattern", value |-> p]
MinLength(n) == [rule |-> "MinLength", value |-> n]
MaxLength(n) == [rule |-> "MaxLength", value |-> n]
MinValue(x) == [rule |-> "MinValue", value |-> x]
MaxValue(x) == [rule |-> "MaxValue", value |-> x]
DateTimeFormatRule(f) == [rule |-> "DateTimeFormat", value |-> f]

(***************************************************************************)
(* ValidationError                                                         *)
(***************************************************************************)
MissingField(f) == [variant |-> "MissingField", field |-> f]
NullValue(f) == [variant |-> "NullValue", field |-> f]
InvalidType(f, e, a) ==
    [variant |-> "InvalidType", field |-> f, expected |-> e, actual |-> a]
RuleViolation(f, r, m) ==
    [variant |-> "RuleViolation", field |-> f, rule |-> r, message |-> m]

(***************************************************************************)
(* The type gate                                                           *)
(***************************************************************************)
\* mutant of json_type_name: every number is reported as an integer
json_type_nameNoFloat(v) ==
    CASE v.kind = "String" -> "String"
      [] v.kind = "Number" -> "Integer"
      [] v.kind = "Bool" -> "Boolean"
      [] v.kind = "Array" -> "Array"
      [] v.kind = "Object" -> "Object"
      [] v.kind = "Null" -> "String"

json_type_name(v) ==
    CASE v.kind = "String" -> "String"
      [] is_f64(v) -> "Float"
      [] v.kind = "Number" /\ ~is_f64(v) -> "Integer"
      [] v.kind = "Bool" -> "Boolean"
      [] v.kind = "Array" -> "Array"
      [] v.kind = "Object" -> "Object"
      [] v.kind = "Null" -> "String"

\* mutant of matches: float accepts only numbers stored as f64
matchesNoWidening(expected, v) ==
    CASE expected = "String" -> is_string(v)
      [] expected = "Integer" -> is_i64(v) \/ is_u64(v)
      [] expected = "Float" -> is_f64(v)
      [] expected = "Boolean" -> is_boolean(v)
      [] expected = "Array" -> is_array(v)
      [] expected = "Object" -> is_object(v)
      [] expected = "DateTime" -> is_string(v)

matches(expected, v) ==
    CASE expected = "String" -> is_string(v)
      [] expected = "Integer" -> is_i64(v) \/ is_u64(v)
      [] expected = "Float" -> is_f64(v) \/ is_i64(v) \/ is_u64(v)
      [] expected = "Boolean" -> is_boolean(v)
      [] expected = "Array" -> is_array(v)
      [] expected = "Object" -> is_object(v)
      [] expected = "DateTime" -> is_string(v)

check_type(field, expected, v) ==
    IF matches(expected, v) THEN None
    ELSE Some(InvalidType(field, expected, json_type_name(v)))

(***************************************************************************)
(* The rule catalogue                                                      *)
(***************************************************************************)
\* the arguments of format!: literal text, and the Display of a string, of
\* a usize and of an f64, and the Debug of a DateTimeFormat
Lit(text) == [lit |-> text]
ShowStr(s) == [str |-> s]
ShowUsize(n) == [usize |-> n]
ShowF64(x) == [f64 |-> x]
ShowDebug(f) == [debug |-> f]

\* the arm of each rule variant
\* mutant of check_pattern: a regex source that does not compile is
\* reported as a violation
check_patternStrict(field, rule, v) ==
    LET s == AsStrOrEmpty(v) IN
    IF ~RegexCompiles(rule.value) \/ ~IsMatch(rule.value, s)
    THEN Some(RuleViolation(field, rule,
            <<Lit("value '"), ShowStr(s), Lit("' does not match pattern '"),
              ShowStr(rule.value), Lit("'")>>))
    ELSE None

check_pattern(field, rule, v) ==
    LET s == AsStrOrEmpty(v) IN
    IF ~RegexCompiles(rule.value) THEN None
    ELSE IF ~IsMatch(rule.value, s)
         THEN Some(RuleViolation(field, rule,
                <<Lit("value '"), ShowStr(s),
                  Lit("' does not match pattern '"), ShowStr(rule.value),
                  Lit("'")>>))
         ELSE None

\* mutant of check_min_length: the bound is exclusive
check_min_lengthExclusive(field, rule, v) ==
    LET s == AsStrOrEmpty(v) IN
    IF StrLen(s) <= rule.value
    THEN Some(RuleViolation(field, rule,
            <<Lit("length "), ShowUsize(StrLen(s)),
              Lit(" is less than minimum "), ShowUsize(rule.value)>>))
    ELSE None

check_min_length(field, rule, v) ==
    LET s == AsStrOrEmpty(v) IN
    IF StrLen(s) < rule.value
    THEN Some(RuleViolation(field, rule,
            <<Lit("length "), ShowUsize(StrLen(s)),
              Lit(" is less than minimum "), ShowUsize(rule.value)>>))
    ELSE None

\* mutant of check_max_length: the message gives the bound where the length
\* belongs and the length where the bound belongs
check_max_lengthSwapped(field, rule, v) ==
    LET s == AsStrOrEmpty(v) IN
    IF StrLen(s) > rule.value
    THEN Some(RuleViolation(field, rule,
            <<Lit("length "), ShowUsize(rule.value),
              Lit(" exceeds maximum "), ShowUsize(StrLen(s))>>))
    ELSE None

check_max_length(field, rule, v) ==
    LET s == AsStrOrEmpty(v) IN
    IF StrLen(s) > rule.value
    THEN Some(RuleViolation(field, rule,
            <<Lit("length "), ShowUsize(StrLen(s)),
              Lit(" exceeds maximum "), ShowUsize(rule.value)>>))
    ELSE None

check_min_value(field, rule, v) ==
    LET n == AsF64Or(v, F64_MAX) IN
    IF F64Lt(n, rule.value)
    THEN Some(RuleViolation(field, rule,
            <<Lit("value "), ShowF64(n), Lit(" is less than minimum "),
              ShowF64(rule.value)>>))
    ELSE None

check_max_value(field, rule, v) ==
    LET n == AsF64Or(v, F64_MIN) IN
    IF F64Lt(rule.value, n)
    THEN Some(RuleViolation(field, rule,
            <<Lit("value "), ShowF64(n), Lit(" exceeds maximum "),
              ShowF64(rule.value)>>))
    ELSE None

check_date_time_format(field, rule, v) ==
    LET s == AsStrOrEmpty(v)
        valid == IF rule.value = "Iso8601" THEN ParseRfc3339Ok(s)
                 ELSE ParseI64Ok(s)
    IN  IF ~valid
        THEN Some(RuleViolation(field, rule,
                <<Lit("value '"), ShowStr(s), Lit("' is not a valid "),
                  ShowDebug(rule.value)>>))
        ELSE None

check_rule(field, rule, v) ==
    CASE rule.rule = "Pattern" -> check_pattern(field, rule, v)
      [] rule.rule = "MinLength" -> check_min_length(field, rule, v)
      [] rule.rule = "MaxLength" -> check_max_length(field, rule, v)
      [] rule.rule = "MinValue" -> check_min_value(field, rule, v)
      [] rule.rule = "MaxValue" -> check_max_value(field, rule, v)
      [] rule.rule = "DateTimeFormat" ->
            check_date_time_format(field, rule, v)

(***************************************************************************)
(* FieldDefinition and Schema                                              *)
(***************************************************************************)
FieldDefinitionNew(t) ==
    [field_type |-> t, required |-> FALSE, nullable |-> FALSE, rules |-> <<>>]

SchemaNew(n) == [name |-> n, fields |-> EmptyMap]

\* mutant of MapInsert: an existing entry is kept (first writer wins)
MapInsertIfAbsent(m, name, d) ==
    [k \in DOMAIN m \cup {name} |-> IF k \in DOMAIN m THEN m[k] ELSE d]

\* HashMap::insert: the entry of name is created or replaced
MapInsert(m, name, d) ==
    [k \in DOMAIN m \cup {name} |-> IF k = name THEN d ELSE m[k]]

SchemaField(s, name, d) == [s EXCEPT !.fields = MapInsert(s.fields, name, d)]

(***************************************************************************)
(* validate                                                                *)
(***************************************************************************)
Ok == [ok |-> TRUE, errors |-> <<>>]
Err(es) == [ok |-> FALSE, errors |-> es]

NoField == "-"
NoResult == [none |-> TRUE]
NoDef == [none |-> TRUE]
NoWire == [none |-> TRUE]
NoPrev == [none |-> TRUE]

\* mutant of Gates: the rules are applied after a type mismatch too
GatesFallThrough(field_name, definition, p) ==
    LET value == Get(p, field_name) IN
    IF ~value.some
    THEN [error |-> IF definition.required
                    THEN Some(MissingField(field_name)) ELSE None,
          rules |-> FALSE]
    ELSE IF is_null(value.v)
    THEN [error |-> IF ~definition.nullable
                    THEN Some(NullValue(field_name)) ELSE None,
          rules |-> FALSE]
    ELSE [error |-> check_type(field_name, definition.field_type, value.v),
          rules |-> TRUE]

\* mutant of Gates: null is reported only for required fields
GatesCoupled(field_name, definition, p) ==
    LET value == Get(p, field_name) IN
    IF ~value.some
    THEN [error |-> IF definition.required
                    THEN Some(MissingField(field_name)) ELSE None,
          rules |-> FALSE]
    ELSE IF is_null(value.v)
    THEN [error |-> IF ~definition.nullable /\ definition.required
                    THEN Some(NullValue(field_name)) ELSE None,
          rules |-> FALSE]
    ELSE LET err == check_type(field_name, definition.field_type, value.v)
         IN  [error |-> err, rules |-> ~err.some]

\* the gates of one loop iteration: the error to push, if any, and whether
\* the iteration goes on to the rules
Gates(field_name, definition, p) ==
    LET value == Get(p, field_name) IN
    IF ~value.some
    THEN [error |-> IF definition.required
                    THEN Some(MissingField(field_name)) ELSE None,
          rules |-> FALSE]
    ELSE IF is_null(value.v)
    THEN [error |-> IF ~definition.nullable
                    THEN Some(NullValue(field_name)) ELSE None,
          rules |-> FALSE]
    ELSE LET err == check_type(field_name, definition.field_type, value.v)
         IN  [error |-> err, rules |-> ~err.some]

\* mutant of PastPresenceGate: an absent field leaves the iteration only when
\* it is required (continue inside the if)
PastPresenceGateUnlessRequired(field_name, definition, p) ==
    Get(p, field_name).some \/ ~definition.required

\* the iteration of field_name gets past the presence gate, to the unwrap
\* of the looked-up value
PastPresenceGate(field_name, definition, p) == Get(p, field_name).some

\* Option::unwrap panics on None
UnwrapPanics(opt) == ~opt.some

\* errors.push(err) when there is one
Push(es, opt) == IF opt.some THEN Append(es, opt.v) ELSE es

\* mutant of Continue: a failing field ends the loop (break)
Break(rest, field_name, failed) ==
    IF failed THEN {} ELSE rest \ {field_name}

\* the fields left to visit when the iteration of field_name ends
\* (continue: only field_name leaves the iteration)
Continue(rest, field_name, failed) == rest \ {field_name}

\* mutant of NextRule: the first rejecting rule ends the loop over the rules
NextRuleUnlessRejected(i, n, rejected) == IF rejected THEN n + 1 ELSE i + 1

\* the rule to apply after rule number i of n (every rule is applied,
\* whether or not rule number i rejected)
NextRule(i, n, rejected) == i + 1

ValidateBegin ==
    /\ pc = "idle"
    /\ errors' = <<>>
    /\ todo' = DOMAIN schema.fields
    /\ visited' = <<>>
    /\ pc' = "loop"
    /\ UNCHANGED <<schema, def, log, name0, wire, decoded, payload, cur, ri,
                   result, prev>>

\* one iteration of the loop over schema.fields, up to the rules; the
\* HashMap yields the fields in an arbitrary order
FieldGates ==
    /\ pc = "loop"
    /\ \E field_name \in todo :
          LET definition == schema.fields[field_name]
              g == Gates(field_name, definition, payload)
          IN  /\ visited' = Append(visited, field_name)
              /\ IF /\ PastPresenceGate(field_name, definition, payload)
                    /\ UnwrapPanics(Get(payload, field_name))
                 THEN /\ pc' = "panic"
                      /\ UNCHANGED <<errors, cur, ri, todo>>
                 ELSE /\ errors' = Push(errors, g.error)
                      /\ IF g.rules /\ Len(definition.rules) > 0
                         THEN /\ pc' = "rules"
                              /\ cur' = field_name
                              /\ ri' = 1
                              /\ todo' = todo
                         ELSE /\ pc' = "loop"
                              /\ cur' = NoField
                              /\ ri' = 0
                              /\ todo' =
                                    Continue(todo, field_name, g.error.some)
    /\ UNCHANGED <<schema, def, log, name0, wire, decoded, payload, result,
                   prev>>

\* one iteration of the loop over definition.rules
RuleStep ==
    /\ pc = "rules"
    /\ LET rules == schema.fields[cur].rules
           err == check_rule(cur, rules[ri], Get(payload, cur).v)
           nxt == NextRule(ri, Len(rules), err.some)
       IN  /\ errors' = Push(errors, err)
           /\ IF nxt <= Len(rules)
              THEN /\ ri' = nxt
                   /\ UNCHANGED <<pc, cur, todo>>
              ELSE /\ pc' = "loop"
                   /\ cur' = NoField
                   /\ ri' = 0
                   /\ todo' = Continue(todo, cur, FALSE)
    /\ UNCHANGED <<schema, def, log, name0, wire, decoded, payload, visited,
                   result, prev>>

ValidateReturn ==
    /\ pc = "loop"
    /\ todo = {}
    /\ result' = IF errors = <<>> THEN Ok ELSE Err(errors)
    /\ pc' = "done"
    /\ UNCHANGED <<schema, def, log, name0, wire, decoded, payload, todo, cur,
                   ri, visited, errors, prev>>

ExtraNames == {"x"}
ExtraValues == {VNull, VPosInt(1), VString(<<"a", "b">>)}

\* p plus members under names that are no schema field
WithExtraFields(p) ==
    IF ~is_object(p) THEN {}
    ELSE {VObject([k \in DOMAIN p.map \cup xs |->
                      IF k \in xs THEN x[k] ELSE p.map[k]]) :
            <<xs, x>> \in
              UNION {{<<ys, y>> : y \in [ys -> ExtraValues]} :
                       ys \in (SUBSET ExtraNames) \ {{}}}}

\* the caller validates again: the same payload, or the payload plus fields
\* the schema does not know
Revalidate ==
    /\ pc = "done"
    /\ prev = NoPrev
    /\ prev' = [payload |-> payload, result |-> result, visited |-> visited]
    /\ \E p \in {payload} \cup WithExtraFields(payload) : payload' = p
    /\ pc' = "idle"
    /\ errors' = <<>>
    /\ visited' = <<>>
    /\ result' = NoResult
    /\ UNCHANGED <<schema, def, log, name0, wire, decoded, todo, cur, ri>>

NextValidate ==
    \/ ValidateBegin
    \/ FieldGates
    \/ RuleStep
    \/ ValidateReturn
    \/ Revalidate

(***************************************************************************)
(* Inputs of validate                                                      *)
(***************************************************************************)
SEmpty == <<>>
SAb == <<"a", "b">>
SMail == <<"a", "@", "b">>
SNum == <<"1", "2">>
SWide == <<"é", "a">>
SDate == <<"2", "0", "2", "4", "-", "0", "1", "-", "1", "5", "T",
           "1", "0", ":", "3", "0", ":", "0", "0", "Z">>

Values ==
    {VString(SEmpty), VString(SAb), VString(SMail), VString(SNum),
     VString(SDate), VString(SWide), VPosInt(0), VPosInt(1), VNegInt(0 - 1),
     VFloat(Fin(3)), VBool(TRUE),
     VArray, VObject(EmptyMap), VNull}

RuleCatalogue ==
    {Pattern(PEmail), Pattern(PBad), MinLength(3), MaxLength(2),
     MinValue(Fin(0)), MaxValue(Fin(0)), DateTimeFormatRule("Iso8601"),
     DateTimeFormatRule("UnixTimestamp")}

SeqsUpTo(S, n) == UNION {[1..k -> S] : k \in 0..n}

Definitions(rulesets) ==
    [field_type : FieldType, required : BOOLEAN, nullable : BOOLEAN,
     rules : rulesets]

\* payloads that are no object
NonObjects == {VArray, VString(SAb), VPosInt(1), VBool(TRUE), VNull}

\* every object over the names ns with members among vs
Objects(ns, vs) == {VObject(m) : m \in UNION {[d -> vs] : d \in SUBSET ns}}

InitCommon ==
    /\ def = NoDef
    /\ log = <<>>
    /\ wire = NoWire
    /\ decoded = NoResult
    /\ pc = "idle"
    /\ todo = {}
    /\ cur = NoField
    /\ ri = 0
    /\ visited = <<>>
    /\ errors = <<>>
    /\ result = NoResult
    /\ prev = NoPrev

\* a schema of one field, of any definition, against any member
Init ==
    /\ InitCommon
    /\ name0 = "s"
    /\ \E d \in Definitions(SeqsUpTo(RuleCatalogue, MaxRules)) :
          schema = SchemaField(SchemaNew("s"), "a", d)
    /\ payload \in Objects({"a"}, Values) \cup NonObjects

Next == NextValidate

Spec == Init /\ [][Next]_vars

\* a call of validate runs to completion: it is never suspended or cancelled
SpecFair == Spec /\ WF_vars(Next)

\* the definitions of the schema "user" of the tests, and one whose first
\* rule is a regex source that does not compile
UserId == [FieldDefinitionNew("Integer") EXCEPT !.required = TRUE]
Email ==
    [FieldDefinitionNew("String") EXCEPT
        !.required = TRUE, !.rules = <<Pattern(PEmail)>>]
Age ==
    [FieldDefinitionNew("Integer") EXCEPT
        !.nullable = TRUE,
        !.rules = <<MinValue(Fin(0)), MaxValue(Fin(240))>>]
Username ==
    [FieldDefinitionNew("String") EXCEPT
        !.required = TRUE, !.rules = <<MinLength(3), MaxLength(20)>>]
BadPattern ==
    [FieldDefinitionNew("String") EXCEPT
        !.rules = <<Pattern(PBad), MinLength(3), Pattern(PEmail)>>]

Names == {"a", "b", "c"}
UserDefinitions == {UserId, Email, Age, Username, BadPattern}
UserValues == {VString(SAb), VString(SMail), VPosInt(200), VNull}

\* a schema of up to MaxFields fields with the definitions of the tests
InitMulti ==
    /\ InitCommon
    /\ name0 = "user"
    /\ \E ns \in SUBSET Names :
          /\ Cardinality(ns) <= MaxFields
          /\ \E fs \in [ns -> UserDefinitions] :
                schema = [name |-> "user", fields |-> fs]
          /\ payload \in Objects(ns, UserValues) \cup NonObjects

SpecMulti == InitMulti /\ [][NextValidate]_vars

(***************************************************************************)
(* Building a schema                                                       *)
(***************************************************************************)
SchemaNames == {"user", "event"}
BuildTypes == {"String", "Integer"}
BuildRules == {MinLength(3)}

\* FieldDefinition::new
DefNew ==
    /\ def = NoDef
    /\ Len(log) < MaxInserts
    /\ \E t \in BuildTypes : def' = FieldDefinitionNew(t)
    /\ UNCHANGED <<schema, log, name0, wire, decoded, payload, pc, todo, cur,
                   ri, visited, errors, result, prev>>

\* FieldDefinition::required
DefRequired ==
    /\ def # NoDef
    /\ def' = [def EXCEPT !.required = TRUE]
    /\ UNCHANGED <<schema, log, name0, wire, decoded, payload, pc, todo, cur,
                   ri, visited, errors, result, prev>>

\* FieldDefinition::nullable
DefNullable ==
    /\ def # NoDef
    /\ def' = [def EXCEPT !.nullable = TRUE]
    /\ UNCHANGED <<schema, log, name0, wire, decoded, payload, pc, todo, cur,
                   ri, visited, errors, result, prev>>

\* FieldDefinition::rule
DefRule ==
    /\ def # NoDef
    /\ Len(def.rules) < MaxBuildRules
    /\ \E r \in BuildRules : def' = [def EXCEPT !.rules = Append(@, r)]
    /\ UNCHANGED <<schema, log, name0, wire, decoded, payload, pc, todo, cur,
                   ri, visited, errors, result, prev>>

\* Schema::field
Field ==
    /\ def # NoDef
    /\ \E name \in Names :
          /\ schema' = SchemaField(schema, name, def)
          /\ log' = Append(log, <<name, def>>)
    /\ def' = NoDef
    /\ UNCHANGED <<name0, wire, decoded, payload, pc, todo, cur, ri, visited,
                   errors, result, prev>>

NextSchema ==
    \/ DefNew
    \/ DefRequired
    \/ DefNullable
    \/ DefRule
    \/ Field

\* Schema::new
InitSchema ==
    /\ InitCommon
    /\ name0 \in SchemaNames
    /\ schema = SchemaNew(name0)
    /\ payload = VNull

SpecSchema == InitSchema /\ [][NextSchema]_vars

(***************************************************************************)
(* The schema wire format (serde derive, serde_json)                       *)
(***************************************************************************)
JNull == [j |-> "null"]
JBool(b) == [j |-> "bool", b |-> b]
JInt(n) == [j |-> "int", n |-> n]        \* a number token without fraction
JFloat(h) == [j |-> "float", h |-> h]    \* a number token with a fraction
JStr(s) == [j |-> "str", s |-> s]
JArr(a) == [j |-> "arr", a |-> a]
JObj(m) == [j |-> "obj", m |-> m]

DeOk(x) == [ok |-> TRUE, v |-> x]
DeErr == [ok |-> FALSE]

\* #[serde(rename_all = "lowercase")] on FieldType
FieldTypeToken(t) ==
    CASE t = "String" -> "string" [] t = "Integer" -> "integer"
      [] t = "Float" -> "float" [] t = "Boolean" -> "boolean"
      [] t = "DateTime" -> "datetime" [] t = "Object" -> "object"
      [] t = "Array" -> "array"

\* #[serde(rename_all = "snake_case")] on DateTimeFormat
DateTimeFormatToken(f) ==
    CASE f = "Iso8601" -> "iso8601" [] f = "UnixTimestamp" -> "unix_timestamp"

RuleVariants ==
    {"Pattern", "MinLength", "MaxLength", "MinValue", "MaxValue",
     "DateTimeFormat"}

\* #[serde(rename_all = "snake_case")] on ValidationRule
RuleTag(v) ==
    CASE v = "Pattern" -> "pattern" [] v = "MinLength" -> "min_length"
      [] v = "MaxLength" -> "max_length" [] v = "MinValue" -> "min_value"
      [] v = "MaxValue" -> "max_value"
      [] v = "DateTimeFormat" -> "date_time_format"

\* serde_json writes a finite f64 as a number, any other f64 as null
SerF64(x) == IF x.cls = "fin" THEN JFloat(x.h) ELSE JNull

\* an f64 is read from any number token
DeF64(j) ==
    CASE j.j = "int" -> DeOk(Fin(2 * j.n))
      [] j.j = "float" -> DeOk(Fin(j.h))
      [] OTHER -> DeErr

\* a usize is read from a non-negative number token without fraction
DeUsize(j) == IF j.j = "int" /\ j.n >= 0 THEN DeOk(j.n) ELSE DeErr

\* #[serde(tag = "rule", content = "value")] on ValidationRule
SerRule(r) ==
    JObj([rule |-> JStr(RuleTag(r.rule)),
          value |-> CASE r.rule = "Pattern" -> JStr(r.value)
                      [] r.rule \in {"MinLength", "MaxLength"} -> JInt(r.value)
                      [] r.rule \in {"MinValue", "MaxValue"} -> SerF64(r.value)
                      [] r.rule = "DateTimeFormat" ->
                            JStr(DateTimeFormatToken(r.value))])

DeRule(j) ==
    IF \/ j.j # "obj"
       \/ DOMAIN j.m # {"rule", "value"}
       \/ j.m.rule.j # "str"
       \/ ~(\E v \in RuleVariants : RuleTag(v) = j.m.rule.s)
    THEN DeErr
    ELSE LET v == CHOOSE w \in RuleVariants : RuleTag(w) = j.m.rule.s
             c == j.m.value
         IN  CASE v = "Pattern" ->
                    IF c.j = "str" THEN DeOk(Pattern(c.s)) ELSE DeErr
               [] v \in {"MinLength", "MaxLength"} ->
                    IF DeUsize(c).ok
                    THEN DeOk([rule |-> v, value |-> DeUsize(c).v]) ELSE DeErr
               [] v \in {"MinValue", "MaxValue"} ->
                    IF DeF64(c).ok
                    THEN DeOk([rule |-> v, value |-> DeF64(c).v]) ELSE DeErr
               [] v = "DateTimeFormat" ->
                    IF c.j = "str"
                       /\ \E f \in DateTimeFormat :
                             DateTimeFormatToken(f) = c.s
                    THEN DeOk(DateTimeFormatRule(
                           CHOOSE f \in DateTimeFormat :
                              DateTimeFormatToken(f) = c.s))
                    ELSE DeErr

\* derive(Serialize) on FieldDefinition
SerDefinition(d) ==
    JObj([field_type |-> JStr(FieldTypeToken(d.field_type)),
          required |-> JBool(d.required),
          nullable |-> JBool(d.nullable),
          rules |-> JArr([i \in 1..Len(d.rules) |-> SerRule(d.rules[i])])])

\* derive(Deserialize) on FieldDefinition
DeDefinition(j) ==
    IF \/ j.j # "obj"
       \/ DOMAIN j.m # {"field_type", "required", "nullable", "rules"}
       \/ j.m.field_type.j # "str"
       \/ ~(\E t \in FieldType : FieldTypeToken(t) = j.m.field_type.s)
       \/ j.m.required.j # "bool"
       \/ j.m.nullable.j # "bool"
       \/ j.m.rules.j # "arr"
       \/ \E i \in 1..Len(j.m.rules.a) : ~DeRule(j.m.rules.a[i]).ok
    THEN DeErr
    ELSE DeOk([field_type |->
                  CHOOSE t \in FieldType :
                     FieldTypeToken(t) = j.m.field_type.s,
               required |-> j.m.required.b,
               nullable |-> j.m.nullable.b,
               rules |-> [i \in 1..Len(j.m.rules.a) |->
                            DeRule(j.m.rules.a[i]).v]])

\* serde_json::to_string(&schema)
SerSchema(s) ==
    JObj([name |-> JStr(s.name),
          fields |-> JObj([k \in DOMAIN s.fields |->
                             SerDefinition(s.fields[k])])])

\* serde_json::from_str::<Schema>
DeSchema(j) ==
    IF \/ j.j # "obj"
       \/ DOMAIN j.m # {"name", "fields"}
       \/ j.m.name.j # "str"
       \/ j.m.fields.j # "obj"
       \/ \E k \in DOMAIN j.m.fields.m : ~DeDefinition(j.m.fields.m[k]).ok
    THEN DeErr
    ELSE DeOk([name |-> j.m.name.s,
               fields |-> [k \in DOMAIN j.m.fields.m |->
                             DeDefinition(j.m.fields.m[k]).v]])

\* derive(PartialEq) on ValidationRule, FieldDefinition and Schema
RuleEq(a, b) ==
    /\ a.rule = b.rule
    /\ IF a.rule \in {"MinValue", "MaxValue"} THEN F64Eq(a.value, b.value)
       ELSE a.value = b.value

DefinitionEq(a, b) ==
    /\ a.field_type = b.field_type
    /\ a.required = b.required
    /\ a.nullable = b.nullable
    /\ Len(a.rules) = Len(b.rules)
    /\ \A i \in 1..Len(a.rules) : RuleEq(a.rules[i], b.rules[i])

SchemaEq(a, b) ==
    /\ a.name = b.name
    /\ DOMAIN a.fields = DOMAIN b.fields
    /\ \A k \in DOMAIN a.fields : DefinitionEq(a.fields[k], b.fields[k])

Serialize ==
    /\ wire = NoWire
    /\ wire' = SerSchema(schema)
    /\ UNCHANGED <<schema, def, log, name0, decoded, payload, pc, todo, cur,
                   ri, visited, errors, result, prev>>

Deserialize ==
    /\ wire # NoWire
    /\ decoded = NoResult
    /\ decoded' = DeSchema(wire)
    /\ UNCHANGED <<schema, def, log, name0, wire, payload, pc, todo, cur, ri,
                   visited, errors, result, prev>>

NextSerde ==
    \/ Serialize
    \/ Deserialize

SerdeRules ==
    RuleCatalogue \cup
        {Pattern(PDigits), MaxLength(20), MinValue(Fin(3)), MaxValue(NaN),
         MinValue(NegInf), MaxValue(Inf)}

\* the schema "user" of the tests
UserSchema ==
    [name |-> "user",
     fields |-> [k \in {"user_id", "email", "age", "username"} |->
                   CASE k = "user_id" -> UserId [] k = "email" -> Email
                     [] k = "age" -> Age [] k = "username" -> Username]]

\* a schema to serialize: the schema of the tests, an empty schema, or a
\* schema of one field of any definition
InitSerde ==
    /\ InitCommon
    /\ schema \in
         {UserSchema} \cup {SchemaNew(n) : n \in SchemaNames} \cup
         {SchemaField(SchemaNew(n), "a", d) :
            n \in SchemaNames,
            d \in Definitions(SeqsUpTo(SerdeRules, MaxRules))}
    /\ name0 = schema.name
    /\ payload = VNull

SpecSerde == InitSerde /\ [][NextSerde]_vars

(***************************************************************************)
(* Properties of validate                                                  *)
(***************************************************************************)
GateVariants == {"MissingField", "NullValue", "InvalidType"}

Fields == DOMAIN schema.fields

\* the positions of es holding an error of field f whose variant is in vs
Positions(es, f, vs) ==
    {i \in 1..Len(es) : es[i].field = f /\ es[i].variant \in vs}

\* the errors of es about field f, in order
ErrorsOf(es, f) == SelectSeq(es, LAMBDA e : e.field = f)

AsSet(es) == {es[i] : i \in 1..Len(es)}

Absent(p, f) == ~Get(p, f).some
IsNullIn(p, f) == Get(p, f).some /\ is_null(Get(p, f).v)
HasValue(p, f) == Get(p, f).some /\ ~is_null(Get(p, f).v)

\* field f of the schema fails the presence, nullability or type gate
FailsGate(p, f) ==
    \/ Absent(p, f) /\ schema.fields[f].required
    \/ IsNullIn(p, f) /\ ~schema.fields[f].nullable
    \/ HasValue(p, f) /\ ~matches(schema.fields[f].field_type, Get(p, f).v)

PassesGates(p, f) ==
    HasValue(p, f) /\ matches(schema.fields[f].field_type, Get(p, f).v)

\* the rules of field f that reject its value
Rejecting(p, f) ==
    {i \in 1..Len(schema.fields[f].rules) :
        check_rule(f, schema.fields[f].rules[i], Get(p, f).v).some}

FailingGates(p, f) ==
    IF FailsGate(p, f) THEN 1
    ELSE IF PassesGates(p, f) THEN Cardinality(Rejecting(p, f))
    ELSE 0

RECURSIVE SumFailingGates(_, _)
SumFailingGates(p, fs) ==
    IF fs = {} THEN 0
    ELSE LET f == CHOOSE x \in fs : TRUE
         IN  FailingGates(p, f) + SumFailingGates(p, fs \ {f})

\* C1: the returned errors hold, for every schema field, at most one of
\* MissingField, NullValue and InvalidType, and no RuleViolation next to one
\* of these
C1_GateOrdering ==
    pc = "done" =>
        \A f \in Fields :
            /\ Cardinality(Positions(result.errors, f, GateVariants)) <= 1
            /\ Positions(result.errors, f, GateVariants) # {} =>
                  Positions(result.errors, f, {"RuleViolation"}) = {}

\* a field of the wrong type whose rules would reject its value got its
\* InvalidType only, while another field got a RuleViolation
C1_Witness ==
    /\ pc = "done"
    /\ \E f, g \in Fields :
          /\ Positions(result.errors, f, {"InvalidType"}) # {}
          /\ Rejecting(payload, f) # {}
          /\ Positions(result.errors, g, {"RuleViolation"}) # {}

\* C2: validate returns one error per field failing the presence,
\* nullability or type gate plus one per rejecting rule of each field
\* passing these gates
C2_Accumulation ==
    pc = "done" => Len(result.errors) = SumFailingGates(payload, Fields)

\* two fields failed, one of them on two rules of its own
C2_Witness ==
    /\ pc = "done"
    /\ \E f, g \in Fields :
          /\ f # g
          /\ FailsGate(payload, f)
          /\ PassesGates(payload, g)
          /\ Cardinality(Rejecting(payload, g)) >= 2
          /\ Len(result.errors) >= 3

SameResult(a, b) == a.ok = b.ok /\ AsSet(a.errors) = AsSet(b.errors)

\* C3: validating the payload plus fields the schema does not know returns
\* the result of validating the payload
C3_ExtraFields ==
    (pc = "done" /\ prev # NoPrev) => SameResult(prev.result, result)

\* a failing payload was validated again with a field more
C3_Witness ==
    /\ pc = "done"
    /\ prev # NoPrev
    /\ payload # prev.payload
    /\ ~result.ok
    /\ Fields # {}

\* C4: two calls on equal inputs return equal results as sets, whatever the
\* orders in which they visit the fields
C4_OrderIndependent ==
    (pc = "done" /\ prev # NoPrev /\ payload = prev.payload) =>
        /\ result.ok = prev.result.ok
        /\ AsSet(result.errors) = AsSet(prev.result.errors)

\* two calls on equal inputs visited the fields in different orders and
\* returned errors of two fields
C4_Witness ==
    /\ pc = "done"
    /\ prev # NoPrev
    /\ payload = prev.payload
    /\ visited # prev.visited
    /\ \E f, g \in Fields :
          f # g /\ ErrorsOf(result.errors, f) # <<>>
                /\ ErrorsOf(result.errors, g) # <<>>

IsInteger(v) == is_i64(v) \/ is_u64(v)

\* C5: a field typed float whose value is an integer number gets no
\* InvalidType error
C5_IntegerWidensToFloat ==
    pc = "done" =>
        \A f \in Fields :
            (/\ schema.fields[f].field_type = "Float"
             /\ HasValue(payload, f)
             /\ IsInteger(Get(payload, f).v)) =>
                Positions(result.errors, f, {"InvalidType"}) = {}

\* a float field holding a negative integer was validated
C5_Witness ==
    /\ pc = "done"
    /\ \E f \in Fields :
          /\ schema.fields[f].field_type = "Float"
          /\ HasValue(payload, f)
          /\ is_i64(Get(payload, f).v) /\ ~is_u64(Get(payload, f).v)
          /\ f \in AsSet(visited)

\* C6: an absent field yields MissingField exactly when required, a null
\* field yields NullValue exactly when not nullable, and in both cases the
\* field yields no other error
C6_IndependentAxes ==
    pc = "done" =>
        \A f \in Fields :
            /\ Absent(payload, f) =>
                  ErrorsOf(result.errors, f) =
                     IF schema.fields[f].required
                     THEN <<MissingField(f)>> ELSE <<>>
            /\ IsNullIn(payload, f) =>
                  ErrorsOf(result.errors, f) =
                     IF schema.fields[f].nullable
                     THEN <<>> ELSE <<NullValue(f)>>

\* a required, non-nullable field with a rule was null: of the four
\* combinations of the flags, the one where null is an error and absence too
C6_Witness ==
    /\ pc = "done"
    /\ \E f \in Fields :
          /\ IsNullIn(payload, f)
          /\ schema.fields[f].required
          /\ ~schema.fields[f].nullable
          /\ schema.fields[f].rules # <<>>
          /\ ErrorsOf(result.errors, f) = <<NullValue(f)>>

StringRules == {"Pattern", "MinLength", "MaxLength", "DateTimeFormat"}
NumericRules == {"MinValue", "MaxValue"}

\* the rule is applied to a value of a kind it is not about
Incompatible(rule, v) ==
    \/ rule.rule \in StringRules /\ ~is_string(v)
    \/ rule.rule \in NumericRules /\ v.kind # "Number"

\* C7: a string rule on a value that is no string, and a numeric rule on a
\* value that is no number, produce no RuleViolation
C7_IncompatibleRuleIsNoOp ==
    pc = "done" =>
        \A f \in Fields :
            PassesGates(payload, f) =>
                \A i \in Positions(result.errors, f, {"RuleViolation"}) :
                    ~Incompatible(result.errors[i].rule, Get(payload, f).v)

\* C8: a pattern rule whose regex source does not compile produces no error
\* for a string value, and the other rules of the field and the other fields
\* produce their errors
C8_BadPatternPasses ==
    pc = "done" =>
        \A f \in Fields :
            (PassesGates(payload, f) /\ is_string(Get(payload, f).v)) =>
                LET rules == schema.fields[f].rules
                    bad == {i \in 1..Len(rules) :
                              /\ rules[i].rule = "Pattern"
                              /\ ~RegexCompiles(rules[i].value)}
                IN  bad # {} =>
                      /\ \A e \in AsSet(result.errors) :
                            e.field = f => e.rule \notin {rules[i] : i \in bad}
                      /\ Len(ErrorsOf(result.errors, f)) =
                            Cardinality(Rejecting(payload, f) \ bad)
                      /\ \A g \in Fields \ {f} :
                            Len(ErrorsOf(result.errors, g)) =
                               FailingGates(payload, g)

\* a field whose first rule does not compile was visited first; its later
\* rules and the field visited after it produced their errors
C8_Witness ==
    /\ pc = "done"
    /\ Len(visited) >= 2
    /\ LET f == visited[1]
           g == visited[2]
       IN  /\ PassesGates(payload, f) /\ is_string(Get(payload, f).v)
           /\ schema.fields[f].rules # <<>>
           /\ schema.fields[f].rules[1] = Pattern(PBad)
           /\ Len(ErrorsOf(result.errors, f)) >= 1
           /\ Len(ErrorsOf(result.errors, g)) >= 1

(***************************************************************************)
(* Properties of the schema builder and of the wire format                 *)
(***************************************************************************)
InsertedNames == {log[i][1] : i \in 1..Len(log)}

\* the definition given by the last insertion of name
LastInserted(name) ==
    LET last == CHOOSE i \in 1..Len(log) :
                   /\ log[i][1] = name
                   /\ \A j \in (i + 1)..Len(log) : log[j][1] # name
    IN  log[last][2]

\* C9: after any insertions the schema keeps its name, has exactly the
\* inserted names as entries, and maps each to the definition of the last
\* insertion of that name
C9_LastWriterWins ==
    /\ schema.name = name0
    /\ DOMAIN schema.fields = InsertedNames
    /\ \A name \in InsertedNames : schema.fields[name] = LastInserted(name)

\* a name was inserted twice, with two definitions
C9_Witness ==
    \E i, j \in 1..Len(log) :
        /\ i < j
        /\ log[i][1] = log[j][1]
        /\ log[i][2] # log[j][2]
        /\ schema.fields[log[j][1]] = log[j][2]

\* the wire form of a rule: an object of a snake_case "rule" tag and a
\* "value"
TaggedRule(j) ==
    /\ j.j = "obj"
    /\ DOMAIN j.m = {"rule", "value"}
    /\ j.m.rule.j = "str"
    /\ j.m.rule.s \in {"pattern", "min_length", "max_length", "min_value",
                       "max_value", "date_time_format"}

\* the wire form of the field types and rules of the schema
StableTags ==
    \A k \in DOMAIN schema.fields :
        LET d == wire.m.fields.m[k] IN
        /\ d.m.field_type.s \in
              {"string", "integer", "float", "boolean", "datetime", "object",
               "array"}
        /\ \A i \in 1..Len(d.m.rules.a) : TaggedRule(d.m.rules.a[i])

\* C10: deserializing the serialization of a schema yields a schema equal to
\* it, the field types being serialized as lowercase tokens and the rules
\* as tagged objects
C10_RoundTrip ==
    /\ wire # NoWire => StableTags
    /\ decoded # NoResult => (decoded.ok /\ SchemaEq(decoded.v, schema))

(***************************************************************************)
(* Totality                                                                *)
(***************************************************************************)
\* C11: every call of validate returns, with success or with errors, and
\* never panics
C11_Totality == (pc = "idle") ~> (pc = "done" /\ result \in {Ok, Err(errors)})

\* a second call returned after the looked-up value was unwrapped and a
\* string rule was applied to a value that is no string
C11_Witness ==
    /\ pc = "done"
    /\ prev # NoPrev
    /\ \E f \in Fields :
          /\ PassesGates(payload, f)
          /\ ~is_string(Get(payload, f).v)
          /\ \E i \in 1..Len(schema.fields[f].rules) :
                schema.fields[f].rules[i].rule \in StringRules

(***************************************************************************)
(* Properties of the type gate and of the rules                            *)
(***************************************************************************)
\* expected is the kind of v, or the one widening, or datetime for a string
KindAccepts(expected, v) ==
    \/ json_type_name(v) = expected
    \/ expected = "Float" /\ json_type_name(v) = "Integer"
    \/ expected = "DateTime" /\ json_type_name(v) = "String"

\* C12: the type gate accepts a non-null value exactly when its kind is the
\* expected type, or integer for float, or string for datetime; every
\* InvalidType reports the kind of the value, which differs from the
\* expected type
C12_TypeGateAgreesWithKind ==
    \A f \in Fields :
        HasValue(payload, f) =>
            LET v == Get(payload, f).v
                expected == schema.fields[f].field_type
            IN  /\ matches(expected, v) <=> KindAccepts(expected, v)
                /\ pc = "done" =>
                      /\ PassesGates(payload, f) <=>
                            Positions(result.errors, f, {"InvalidType"}) = {}
                      /\ \A i \in Positions(result.errors, f, {"InvalidType"}) :
                            /\ result.errors[i].expected = expected
                            /\ result.errors[i].actual = json_type_name(v)
                            /\ result.errors[i].actual # expected

\* a string of digits in an integer field was reported as a string
C12_Witness ==
    /\ pc = "done"
    /\ \E f \in Fields :
          /\ HasValue(payload, f)
          /\ Get(payload, f).v = VString(SNum)
          /\ result.errors = <<InvalidType(f, "Integer", "String")>>

\* twice the number held by v
Twice(v) == IF v.repr = "Float" THEN v.f.h ELSE 2 * v.i

\* rule number i of field f is reported in the returned errors
Reported(f, i) ==
    \E k \in Positions(result.errors, f, {"RuleViolation"}) :
        result.errors[k].rule = schema.fields[f].rules[i]

\* C13: the bounds are inclusive: min_length(n) rejects a string of L bytes
\* exactly when L < n, max_length(n) exactly when L > n, min_value(b)
\* rejects a number x exactly when x < b and max_value(b) exactly when x > b
C13_InclusiveBounds ==
    pc = "done" =>
        \A f \in Fields :
            PassesGates(payload, f) =>
                \A i \in 1..Len(schema.fields[f].rules) :
                    LET v == Get(payload, f).v
                        r == schema.fields[f].rules[i]
                    IN  /\ (r.rule = "MinLength" /\ is_string(v)) =>
                              (Reported(f, i) <=> StrLen(v.s) < r.value)
                        /\ (r.rule = "MaxLength" /\ is_string(v)) =>
                              (Reported(f, i) <=> StrLen(v.s) > r.value)
                        /\ (r.rule = "MinValue" /\ v.kind = "Number"
                                /\ r.value.cls = "fin") =>
                              (Reported(f, i) <=> Twice(v) < r.value.h)
                        /\ (r.rule = "MaxValue" /\ v.kind = "Number"
                                /\ r.value.cls = "fin") =>
                              (Reported(f, i) <=> Twice(v) > r.value.h)

\* a number equal to its bound was accepted
C13_Witness ==
    /\ pc = "done"
    /\ result = Ok
    /\ \E f \in Fields :
          /\ PassesGates(payload, f)
          /\ Get(payload, f).v.kind = "Number"
          /\ schema.fields[f].rules # <<>>
          /\ schema.fields[f].rules[1].rule \in NumericRules
          /\ schema.fields[f].rules[1].value = Fin(Twice(Get(payload, f).v))

\* the message holds the part x
Carries(message, x) == \E k \in 1..Len(message) : message[k] = x

\* the value as written: a string, a number, or any other node
Verbatim(v) ==
    CASE is_string(v) -> ShowStr(v.s)
      [] v.kind = "Number" -> ShowF64(AsF64Or(v, F64_MAX))
      [] OTHER -> [json |-> v]

\* the bound of a rule as written
Bound(r) ==
    CASE r.rule \in {"MinLength", "MaxLength"} -> ShowUsize(r.value)
      [] r.rule \in {"MinValue", "MaxValue"} -> ShowF64(r.value)
      [] r.rule = "Pattern" -> ShowStr(r.value)
      [] r.rule = "DateTimeFormat" -> ShowDebug(r.value)

\* the returned RuleViolations of field f, with the value of f
RuleViolationsHold(P(_, _)) ==
    pc = "done" =>
        \A f \in Fields :
            \A k \in Positions(result.errors, f, {"RuleViolation"}) :
                P(result.errors[k], Get(payload, f).v)

RuleOfField(e) ==
    \E i \in 1..Len(schema.fields[e.field].rules) :
        schema.fields[e.field].rules[i] = e.rule

Shown(r, v) ==
    CASE r.rule \in {"Pattern", "DateTimeFormat"} -> ShowStr(AsStrOrEmpty(v))
      [] r.rule \in {"MinLength", "MaxLength"} ->
            ShowUsize(StrLen(AsStrOrEmpty(v)))
      [] r.rule = "MinValue" -> ShowF64(AsF64Or(v, F64_MAX))
      [] r.rule = "MaxValue" -> ShowF64(AsF64Or(v, F64_MIN))

RequiredFields == {f \in Fields : schema.fields[f].required}

\* C15: for a payload that is no object validate returns one MissingField
\* per required field and nothing else, and success when no field is
\* required
C15_NonObjectPayload ==
    (pc = "done" /\ ~is_object(payload)) =>
        /\ \A f \in Fields :
              ErrorsOf(result.errors, f) =
                 IF f \in RequiredFields THEN <<MissingField(f)>> ELSE <<>>
        /\ Len(result.errors) = Cardinality(RequiredFields)
        /\ RequiredFields = {} => result = Ok

\* an array was validated against a required and an optional field
C15_Witness ==
    /\ pc = "done"
    /\ payload = VArray
    /\ RequiredFields # {}
    /\ RequiredFields # Fields
    /\ Len(result.errors) = 1

====
